---------------------------- MODULE Spec2Model ----------------------------
(***************************************************************************)
(* sound_galaxy: the reactive engine (Constrainer), the spectrum-driven    *)
(* particle update rule and the startup particle layout of src/main.rs,    *)
(* with the Particle type of src/lib.rs.                                   *)
(*                                                                         *)
(* All quantities of the program are f32.  They are modelled bit-exactly   *)
(* as IEEE-754 binary32 values with round-to-nearest-even: a value is the  *)
(* record [neg, man, exp] denoting (-1)^neg * man * 2^exp with             *)
(* 2^23 <= man < 2^24, or man = 0 and exp = 0 for a zero.  The model stays *)
(* inside the normal range (no subnormal, infinity or NaN is produced by   *)
(* the inputs it draws).                                                   *)
(***************************************************************************)
EXTENDS Integers, Sequences, FiniteSets, TLC

(***************************************************************************)
(* f32 arithmetic                                                          *)
(***************************************************************************)
F32(neg, man, exp) == [neg |-> neg, man |-> man, exp |-> exp]

F32Zero == F32(FALSE, 0, 0)

IsZero(a) == a.man = 0

RECURSIVE BitLen(_)
BitLen(n) == IF n = 0 THEN 0 ELSE 1 + BitLen(n \div 2)

\* The f32 nearest to (-1)^neg * sig * 2^exp, ties to even.  When bits were
\* dropped below sig, the caller has set sig's lowest bit (a sticky bit) and
\* sig carries at least two bits more than the 24 kept.
RoundPack(neg, sig, exp) ==
    IF sig = 0 THEN F32(neg, 0, 0)
    ELSE LET nb == BitLen(sig) IN
         IF nb <= 24
         THEN F32(neg, sig * 2^(24 - nb), exp - (24 - nb))
         ELSE LET k    == nb - 24
                  q    == sig \div 2^k
                  r    == sig % 2^k
                  half == 2^(k - 1)
                  up   == r > half \/ (r = half /\ q % 2 = 1)
                  m    == IF up THEN q + 1 ELSE q
              IN IF m = 2^24 THEN F32(neg, 2^23, exp + k + 1)
                 ELSE F32(neg, m, exp + k)

F32Neg(a) == F32(~a.neg, a.man, a.exp)

\* a * b: the 48-bit product of the mantissas from 12-bit limbs, then rounded.
F32Mul(a, b) ==
    LET neg == (a.neg /= b.neg) IN
    IF IsZero(a) \/ IsZero(b) THEN F32(neg, 0, 0)
    ELSE LET ah  == a.man \div 4096
             al  == a.man % 4096
             bh  == b.man \div 4096
             bl  == b.man % 4096
             mid == ah * bl + al * bh
             lo0 == al * bl + (mid % 4096) * 4096
             hi  == ah * bh + (mid \div 4096) + (lo0 \div 2^24)
             lo  == lo0 % 2^24
             sig == hi * 64 + (lo \div 2^18)
             jam == IF lo % 2^18 /= 0 /\ sig % 2 = 0 THEN sig + 1 ELSE sig
         IN RoundPack(neg, jam, a.exp + b.exp + 18)

\* |a| < |b| for nonzero normalised a, b.
MagLess(a, b) == a.exp < b.exp \/ (a.exp = b.exp /\ a.man < b.man)

\* a + b, with three guard bits and a sticky bit on the smaller operand.
F32Add(a, b) ==
    IF IsZero(a) /\ IsZero(b) THEN F32(a.neg /\ b.neg, 0, 0)
    ELSE IF IsZero(a) THEN b
    ELSE IF IsZero(b) THEN a
    ELSE LET x  == IF MagLess(a, b) THEN b ELSE a
             y  == IF MagLess(a, b) THEN a ELSE b
             de == x.exp - y.exp
             X  == x.man * 8
             Y0 == y.man * 8
             Y  == IF de > 27 THEN 1
                   ELSE LET q == Y0 \div 2^de
                        IN IF Y0 % 2^de /= 0 /\ q % 2 = 0 THEN q + 1 ELSE q
             S  == IF x.neg = y.neg THEN X + Y ELSE X - Y
         IN IF S = 0 THEN F32Zero ELSE RoundPack(x.neg, S, x.exp - 3)

F32Sub(a, b) == F32Add(a, F32Neg(b))

\* Restoring division: n more quotient bits of rem / d appended to q.
RECURSIVE DivBits(_, _, _, _)
DivBits(q, rem, d, n) ==
    IF n = 0 THEN <<q, rem>>
    ELSE LET r2 == rem * 2
         IN IF r2 >= d THEN DivBits(2 * q + 1, r2 - d, d, n - 1)
                       ELSE DivBits(2 * q, r2, d, n - 1)

\* a / b for b nonzero: 26 fraction bits of the mantissa quotient, then rounded.
F32Div(a, b) ==
    LET neg == (a.neg /= b.neg) IN
    IF IsZero(a) THEN F32(neg, 0, 0)
    ELSE LET qr  == DivBits(a.man \div b.man, a.man % b.man, b.man, 26)
             q   == qr[1]
             jam == IF qr[2] /= 0 /\ q % 2 = 0 THEN q + 1 ELSE q
         IN RoundPack(neg, jam, a.exp - b.exp - 26)

\* a < b
F32Lt(a, b) ==
    IF IsZero(a) /\ IsZero(b) THEN FALSE
    ELSE IF IsZero(a) THEN ~b.neg
    ELSE IF IsZero(b) THEN a.neg
    ELSE IF a.neg /= b.neg THEN a.neg
    ELSE IF a.neg THEN MagLess(b, a)
    ELSE MagLess(a, b)

F32Gt(a, b) == F32Lt(b, a)

\* a == b (the two zeros are equal)
F32Eq(a, b) == ~F32Lt(a, b) /\ ~F32Lt(b, a)

F32Le(a, b) == ~F32Lt(b, a)

\* `n as f32` for an integer n
IntToF32(n) == IF n < 0 THEN RoundPack(TRUE, -n, 0) ELSE RoundPack(FALSE, n, 0)

\* The f32 after a positive a (the next representable value upward).
F32Next(a) ==
    IF IsZero(a) THEN F32(FALSE, 2^23, -149)
    ELSE IF a.man + 1 = 2^24 THEN F32(a.neg, 2^23, a.exp + 1)
    ELSE F32(a.neg, a.man + 1, a.exp)

\* The f32 a decimal literal n/d denotes: the nearest f32 to the quotient of
\* two exactly representable integers.
Dec(n, d) == F32Div(IntToF32(n), IntToF32(d))

(***************************************************************************)
(* Bounds of the model                                                     *)
(***************************************************************************)
\* PARTICLE_COUNT of the engine specification (2048 in the program).
NumParticles == 2

\* Largest particle count the layout specification lays out.
MaxLayoutN == 10

\* Update calls in one behaviour of the engine specification.
MaxUpdates == 2

\* Magnitudes the diameter specification draws: k * 10^(j-1), k <= MaxDigit,
\* j <= MaxMagPow, and the f32 just above each.
MaxDigit == 5

MaxMagPow == 5

(***************************************************************************)
(* Literals of src/main.rs and src/lib.rs                                  *)
(***************************************************************************)
MAGNITUDE_SCALE == Dec(1, 10000)

UPPER_KNEE == Dec(2, 100)

KNEE_DIVISOR == IntToF32(50)

LOWER_KNEE == Dec(1, 1000)

LOWER_GAIN == IntToF32(10)

DRIFT_SPEED == IntToF32(20)

WRAP_FLOOR == IntToF32(-1)

WRAP_SPAN == IntToF32(2)

F32One == IntToF32(1)

F32Two == IntToF32(2)

\* The frame driver: the longest wait for an event, in ticks.
MaxWait == 3

\* The greatest samples.len() drawn.
MaxSamples == 7

(***************************************************************************)
(* Inputs                                                                  *)
(***************************************************************************)
\* Results of the four rand::random::<f32>() calls of one Particle::new, in
\* call order (y, r, g, b): values of [0, 1) on the 2^-24 grid.  The first
\* draws the least value, the second the greatest.
RandomDraws ==
    { <<F32Zero, Dec(1, 4), Dec(1, 2), Dec(3, 4)>>,
      <<F32(FALSE, 2^24 - 1, -24), Dec(1, 2), Dec(1, 8), F32Zero>> }

\* window.inner_size() and the sizes the resize events carry (u32 pairs).
WindowSizes == { <<800, 600>>, <<1024, 768>> }

\* Magnitudes of the spectra the frame driver passes.
BaseMagnitudes == << IntToF32(0), IntToF32(50), IntToF32(500), IntToF32(20000) >>

\* The spectra drawn: NumParticles + 1 bins (an FFT over 2 * PARTICLE_COUNT
\* samples has PARTICLE_COUNT + 1), read off BaseMagnitudes from any offset.
Spectra ==
    { [i \in 1..(NumParticles + 1) |->
          BaseMagnitudes[((o + i - 1) % Len(BaseMagnitudes)) + 1]] :
      o \in 0..(Len(BaseMagnitudes) - 1) }

\* Elapsed times passed as deltatime: 0.0 (the first frame), the frame period
\* and a stall of four seconds.
DeltaTimes == { F32Zero, Dec(1, 150), IntToF32(4) }

\* Magnitudes of the diameter specification.
Magnitudes ==
    LET grid == { Dec(k * 10^j, 10) : k \in 0..MaxDigit, j \in 0..MaxMagPow }
    IN grid \cup { F32Next(m) : m \in grid }

(***************************************************************************)
(* State                                                                   *)
(***************************************************************************)
VARIABLES
    phase,              \* main's position: "layout" (the loop of lines 138-145),
                        \* then "running" (after Constrainer::new)
    count,              \* PARTICLE_COUNT, the number of particles laid out
    resx, resy,         \* Constrainer's dynamic fields
    particles,          \* Constrainer's dynamic field (main's Vec before new)
    resolution_buffer,  \* what resolution_buffer.set last wrote (<<>>: nothing)
    ellipse_buffer,     \* what set_ellipse_buffer last wrote (<<>>: nothing)
    entry,              \* the engine entry point that returned last
    calls,              \* the listeners that entry point ran, in order, each
                        \* with the resx and resy it was passed
    old_res,            \* <<resx, resy>> as that entry point found them
    args,               \* the resx and resy passed to new or set_resx_resy last
    spectrum,           \* the arguments of the last update call
    deltatime,
    iters,              \* per particle, the passes of the wrap loop in it
    updates,            \* number of update calls so far
    dpc,                \* diameter specification: the statement reached
    mag,                \* its two magnitudes spectrum_data[i].1.val()
    dia,                \* the local `diameter` of each
    taken,              \* per magnitude, the branches of lines 86 and 89 taken
    redo,               \* the transform, and its knees alone, applied to dia
    control_flow,       \* *control_flow as the closure's last call left it
    event,              \* the event that call handled
    surface,            \* what get_current_texture returned in it
    surface_size,       \* the size renderer.resize was last passed (<<>>: none)
    samples_len,        \* samples.len()
    sample_rate,        \* source.sample_rate()
    elapsed,            \* timer.elapsed() in ticks when last_frame_time
                        \* was last set
    mark_gap,           \* ticks between the last two values of
                        \* last_frame_time (-1: it was never reset)
    main_deltatime,     \* main's local deltatime (line 151)
    frame               \* what that call did when it handled a redraw

engineVars == <<phase, count, resx, resy, particles, resolution_buffer,
                ellipse_buffer, entry, calls, old_res, args, spectrum,
                deltatime, iters, updates>>

diameterVars == <<dpc, mag, dia, taken, redo>>

driverVars == <<control_flow, event, surface, surface_size, samples_len,
                sample_rate, elapsed, mark_gap, main_deltatime,
                frame>>

vars == <<engineVars, diameterVars, driverVars>>

(***************************************************************************)
(* src/lib.rs: Particle                                                    *)
(***************************************************************************)
\* Particle::new(x), with draw the results of its four rand::random calls.
ParticleNew(x, draw) ==
    [ x        |-> x,
      y        |-> F32Sub(F32Mul(draw[1], F32Two), F32One),
      r        |-> draw[2],
      g        |-> draw[3],
      b        |-> draw[4],
      diameter |-> F32Zero ]

(***************************************************************************)
(* src/main.rs: startup layout                                             *)
(***************************************************************************)
\* LayoutX without the +2.0 of the second half: a single ramp.
LayoutXSingleRamp(i, n) ==
    F32Mul(F32Div(IntToF32(i), F32Sub(IntToF32(n), F32One)), F32Neg(F32Two))

\* The x of the particle of index i (from 0) among n.
LayoutX(i, n) ==
    LET ratio == F32Div(IntToF32(i), F32Sub(IntToF32(n), F32One))
    IN IF i < n \div 2
       THEN F32Mul(ratio, F32Neg(F32Two))
       ELSE F32Add(F32Mul(ratio, F32Neg(F32Two)), F32Two)

(***************************************************************************)
(* src/main.rs: the diameter of a magnitude (lines 85-95)                  *)
(***************************************************************************)
\* let mut diameter = spectrum_data[i].1.val()*0.0001;
ScaleMagnitude(m) == F32Mul(m, MAGNITUDE_SCALE)

\* UpperKneeTaken with >= for >.
UpperKneeTakenAtKnee(d) == F32Le(UPPER_KNEE, d)

UpperKneeTaken(d) == F32Gt(d, UPPER_KNEE)

\* UpperKnee without its test: the compression applied to every diameter.
UpperKneeAlways(d) ==
    F32Add(UPPER_KNEE, F32Div(F32Sub(d, UPPER_KNEE), KNEE_DIVISOR))

UpperKnee(d) ==
    IF UpperKneeTaken(d)
    THEN F32Add(UPPER_KNEE, F32Div(F32Sub(d, UPPER_KNEE), KNEE_DIVISOR))
    ELSE d

LowerKneeTaken(d) == F32Lt(d, LOWER_KNEE)

\* LowerKnee without the cap of lines 91-93.
LowerKneeUncapped(d) ==
    IF LowerKneeTaken(d) THEN F32Mul(d, LOWER_GAIN) ELSE d

LowerKnee(d) ==
    IF LowerKneeTaken(d)
    THEN LET d10 == F32Mul(d, LOWER_GAIN)
         IN IF F32Gt(d10, LOWER_KNEE) THEN LOWER_KNEE ELSE d10
    ELSE d

\* Lines 86-94 on a diameter.
Knees(d) == LowerKnee(UpperKnee(d))

\* Lines 85-94 on a magnitude.
DiameterOf(m) == Knees(ScaleMagnitude(m))

(***************************************************************************)
(* src/main.rs: the wrap loop (lines 98-100)                               *)
(***************************************************************************)
\* WrapLoop with `if` for `while`: one pass at most.
WrapLoopOnce(y, n) ==
    IF F32Lt(y, WRAP_FLOOR)
    THEN [y |-> F32Add(y, WRAP_SPAN), iters |-> n + 1]
    ELSE [y |-> y, iters |-> n]

\* while particle.y < -1.0 { particle.y += 2.0; } after n passes: the y it
\* ends with and the passes made.
RECURSIVE WrapLoop(_, _)
WrapLoop(y, n) ==
    IF F32Lt(y, WRAP_FLOOR)
    THEN WrapLoop(F32Add(y, WRAP_SPAN), n + 1)
    ELSE [y |-> y, iters |-> n]

\* particle.y -= diameter*deltatime*20.0;
Drift(y, diameter, dt) == F32Sub(y, F32Mul(F32Mul(diameter, dt), DRIFT_SPEED))

\* UpdateParticle drifting and wrapping x for y.
UpdateParticleDriftsX(p, m, dt) ==
    LET diameter == DiameterOf(m)
        wrapped  == WrapLoop(Drift(p.x, diameter, dt), 0)
    IN [ particle |-> [p EXCEPT !.diameter = diameter, !.x = wrapped.y],
         iters    |-> wrapped.iters ]

\* The loop body of lines 84-101 on one particle and its magnitude: the
\* particle as it leaves it, and the passes of the wrap loop.
UpdateParticle(p, m, dt) ==
    LET diameter == DiameterOf(m)
        wrapped  == WrapLoop(Drift(p.y, diameter, dt), 0)
    IN [ particle |-> [p EXCEPT !.diameter = diameter, !.y = wrapped.y],
         iters    |-> wrapped.iters ]

(***************************************************************************)
(* src/main.rs: the Constrainer's listeners                                *)
(***************************************************************************)
\* Listeners with the two declarations in the other order.
ListenersSwapped ==
    << [name |-> "update_ellipse_buffer", deps |-> {"resx", "resy", "particles"}],
       [name |-> "set_resolution_buffer", deps |-> {"resx", "resy"}] >>

\* The listeners in declaration order, each with the dynamic fields among
\* its parameters.
Listeners ==
    << [name |-> "set_resolution_buffer", deps |-> {"resx", "resy"}],
       [name |-> "update_ellipse_buffer", deps |-> {"resx", "resy", "particles"}] >>

\* opgenset (resx, resy)
OpGenSet == {"resx", "resy"}

DynamicFields == {"resx", "resy", "particles"}

\* Descriptor with the centre's coordinates exchanged.
DescriptorSwapped(particle, rx, ry) ==
    [ sx |-> particle.diameter, sy |-> particle.diameter,
      cx |-> particle.y, cy |-> particle.x,
      centerx |-> F32Zero, centery |-> F32Zero,
      resx |-> rx, resy |-> ry, aspect |-> F32One,
      r |-> particle.r, g |-> particle.g, b |-> particle.b, a |-> F32One ]

\* The EllipseDescriptor update_ellipse_buffer pushes for a particle.
Descriptor(particle, rx, ry) ==
    [ sx |-> particle.diameter, sy |-> particle.diameter,
      cx |-> particle.x, cy |-> particle.y,
      centerx |-> F32Zero, centery |-> F32Zero,
      resx |-> rx, resy |-> ry, aspect |-> F32One,
      r |-> particle.r, g |-> particle.g, b |-> particle.b, a |-> F32One ]

\* Listener bodies, on the engine state st = [resx, resy, particles,
\* resolution_buffer, ellipse_buffer, calls, iters].
\* SetResolutionBuffer skipping the write when the buffer already holds
\* the values.
SetResolutionBufferIfDirty(st) ==
    IF st.resolution_buffer = <<st.resx, st.resy>> THEN st
    ELSE [st EXCEPT !.resolution_buffer = <<st.resx, st.resy>>,
                    !.calls = Append(@, [listener |-> "set_resolution_buffer",
                                        resx |-> st.resx, resy |-> st.resy])]

SetResolutionBuffer(st) ==
    [st EXCEPT !.resolution_buffer = <<st.resx, st.resy>>,
               !.calls = Append(@, [listener |-> "set_resolution_buffer",
                                   resx |-> st.resx, resy |-> st.resy])]

UpdateEllipseBuffer(st) ==
    [st EXCEPT !.ellipse_buffer =
                   [i \in 1..Len(st.particles) |->
                       Descriptor(st.particles[i], st.resx, st.resy)],
               !.calls = Append(@, [listener |-> "update_ellipse_buffer",
                                   resx |-> st.resx, resy |-> st.resy])]

RunListener(name, st) ==
    IF name = "set_resolution_buffer" THEN SetResolutionBuffer(st)
    ELSE UpdateEllipseBuffer(st)

\* The listeners a change of the fields `changed` triggers: those whose
\* parameters name one of them, each once, in declaration order.
Triggered(changed) ==
    SelectSeq(Listeners, LAMBDA l : l.deps \cap changed /= {})

RECURSIVE RunListeners(_, _)
RunListeners(ls, st) ==
    IF ls = <<>> THEN st
    ELSE RunListeners(Tail(ls), RunListener(Head(ls).name, st))

\* The engine state an entry point starts from, its call log empty.
EngineState(rx, ry, ps) ==
    [ resx |-> rx, resy |-> ry, particles |-> ps,
      resolution_buffer |-> resolution_buffer,
      ellipse_buffer |-> ellipse_buffer, calls |-> <<>>, iters |-> iters ]

\* Constrainer::new stores the dynamic fields and runs every listener.
ConstrainerNew(rx, ry, ps) ==
    RunListeners(Triggered(DynamicFields), EngineState(rx, ry, ps))

\* Constrainer::set_resx_resy stores resx and resy and runs the listeners
\* they trigger.
ConstrainerSetResxResy(rx, ry) ==
    RunListeners(Triggered(OpGenSet), EngineState(rx, ry, particles))

\* The for loop of lines 84-101 from particle k on, particle i (from 0)
\* reading bin i + shift of the spectrum: what UpdateParticle gives for each.
RECURSIVE UpdateLoop(_, _, _, _)
UpdateLoop(k, sp, dt, shift) ==
    IF k > Len(particles) THEN <<>>
    ELSE <<UpdateParticle(particles[k], sp[k + shift], dt)>>
             \o UpdateLoop(k + 1, sp, dt, shift)

\* AfterLoop on the resolution the last entry point replaced.
AfterLoopStaleRes(upd) ==
    [EngineState(old_res[1], old_res[2], [i \in 1..Len(upd) |-> upd[i].particle])
        EXCEPT !.iters = [i \in 1..Len(upd) |-> upd[i].iters]]

\* The engine state once the loop has given upd.
AfterLoop(upd) ==
    [EngineState(resx, resy, [i \in 1..Len(upd) |-> upd[i].particle])
        EXCEPT !.iters = [i \in 1..Len(upd) |-> upd[i].iters]]

UpdateParticles(sp, dt, shift) == AfterLoop(UpdateLoop(1, sp, dt, shift))

\* ConstrainerSetParticles without the call of line 102.
ConstrainerSetParticlesNoRebuild(sp, dt) == UpdateParticles(sp, dt, 0)

\* ConstrainerSetParticles reading the spectrum one bin further on.
ConstrainerSetParticlesShifted(sp, dt) ==
    UpdateEllipseBuffer(UpdateParticles(sp, dt, 1))

\* Constrainer::set_particles_with_spectrum_and_deltatime (lines 82-103).
ConstrainerSetParticles(sp, dt) ==
    UpdateEllipseBuffer(UpdateParticles(sp, dt, 0))

(***************************************************************************)
(* Actions                                                                 *)
(***************************************************************************)
\* The engine state st becomes the state, entry point e having returned.
Return(e, st) ==
    /\ resx' = st.resx
    /\ resy' = st.resy
    /\ particles' = st.particles
    /\ resolution_buffer' = st.resolution_buffer
    /\ ellipse_buffer' = st.ellipse_buffer
    /\ calls' = st.calls
    /\ iters' = st.iters
    /\ entry' = e
    /\ old_res' = <<resx, resy>>

\* One pass of the layout loop (lines 138-145).
PushParticle ==
    /\ phase = "layout"
    /\ Len(particles) < count
    /\ \E draw \in RandomDraws :
          particles' = Append(particles,
                              ParticleNew(LayoutX(Len(particles), count), draw))
    /\ UNCHANGED <<phase, count, resx, resy, resolution_buffer, ellipse_buffer,
                   entry, calls, old_res, args, spectrum, deltatime, iters,
                   updates>>
    /\ UNCHANGED diameterVars
    /\ UNCHANGED driverVars

\* Line 147: Constrainer::new on the window's size and the particles.
New ==
    /\ phase = "layout"
    /\ Len(particles) = count
    /\ \E size \in WindowSizes :
          /\ Return("new", ConstrainerNew(IntToF32(size[1]), IntToF32(size[2]),
                                          particles))
          /\ args' = <<IntToF32(size[1]), IntToF32(size[2])>>
    /\ phase' = "running"
    /\ UNCHANGED <<count, spectrum, deltatime, updates>>
    /\ UNCHANGED diameterVars
    /\ UNCHANGED driverVars

\* Lines 168-190: a Resized or ScaleFactorChanged event.
SetResxResy ==
    /\ phase = "running"
    /\ \E size \in WindowSizes :
          /\ Return("set_resx_resy",
                    ConstrainerSetResxResy(IntToF32(size[1]), IntToF32(size[2])))
          /\ args' = <<IntToF32(size[1]), IntToF32(size[2])>>
    /\ UNCHANGED <<phase, count, spectrum, deltatime, updates>>
    /\ UNCHANGED diameterVars
    /\ UNCHANGED driverVars

\* Line 213: the update call of a redraw.
SetParticlesWithSpectrumAndDeltatime ==
    /\ phase = "running"
    /\ updates < MaxUpdates
    /\ \E sp \in Spectra, dt \in DeltaTimes :
          /\ Return("set_particles_with_spectrum_and_deltatime",
                    ConstrainerSetParticles(sp, dt))
          /\ spectrum' = sp
          /\ deltatime' = dt
    /\ updates' = updates + 1
    /\ UNCHANGED <<phase, count, args>>
    /\ UNCHANGED diameterVars
    /\ UNCHANGED driverVars

(***************************************************************************)
(* Diameter specification: lines 85-95 statement by statement, on two      *)
(* magnitudes side by side                                                 *)
(***************************************************************************)
\* Line 85.
Scale ==
    /\ dpc = "start"
    /\ dia' = <<ScaleMagnitude(mag[1]), ScaleMagnitude(mag[2])>>
    /\ dpc' = "scaled"
    /\ UNCHANGED <<mag, taken, redo>>
    /\ UNCHANGED engineVars
    /\ UNCHANGED driverVars

\* Lines 86-88.
ApplyUpperKnee ==
    /\ dpc = "scaled"
    /\ dia' = <<UpperKnee(dia[1]), UpperKnee(dia[2])>>
    /\ taken' = [k \in 1..2 |-> [taken[k] EXCEPT !.upper = UpperKneeTaken(dia[k])]]
    /\ dpc' = "upper"
    /\ UNCHANGED <<mag, redo>>
    /\ UNCHANGED engineVars
    /\ UNCHANGED driverVars

\* Lines 89-95.
ApplyLowerKnee ==
    /\ dpc = "upper"
    /\ dia' = <<LowerKnee(dia[1]), LowerKnee(dia[2])>>
    /\ taken' = [k \in 1..2 |-> [taken[k] EXCEPT !.lower = LowerKneeTaken(dia[k])]]
    /\ dpc' = "done"
    /\ UNCHANGED <<mag, redo>>
    /\ UNCHANGED engineVars
    /\ UNCHANGED driverVars

\* The diameters fed back: as magnitudes (lines 85-94) and as diameters
\* (lines 86-94).
Reapply ==
    /\ dpc = "done"
    /\ redo' = [whole |-> <<DiameterOf(dia[1]), DiameterOf(dia[2])>>,
                knees |-> <<Knees(dia[1]), Knees(dia[2])>>]
    /\ dpc' = "reapplied"
    /\ UNCHANGED <<mag, dia, taken>>
    /\ UNCHANGED engineVars
    /\ UNCHANGED driverVars

(***************************************************************************)
(* src/main.rs: the frame driver (the closure of event_loop.run)           *)
(***************************************************************************)
\* Duration::from_secs_f32(1.0/150.0) in clock ticks: the clock of the model
\* ticks twice in a frame period.
FRAME_PERIOD == 2

TicksPerSecond == 150 * FRAME_PERIOD

\* const SAMPLE_COUNT: usize = PARTICLE_COUNT*2;
SAMPLE_COUNT == count * 2

\* source.sample_rate() of the files drawn.
SampleRates == {150, 300}

\* samples.len() of the files drawn: fewer than a window, and more.
SampleLengths == {MaxSamples - 4, MaxSamples}

\* The spectra samples_fft_to_spectrum returns in the frame driver.
FrameSpectra ==
    { [i \in 1..(NumParticles + 1) |->
          BaseMagnitudes[((o + i - 1) % Len(BaseMagnitudes)) + 1]] :
      o \in {1, 3} }

\* What renderer.surface().get_current_texture() returns: Ok or a
\* wgpu::SurfaceError (Timeout standing for the errors of the arm Err(e)).
SurfaceResults == {"Lost", "OutOfMemory", "Timeout", "Ok"}

Min(a, b) == IF a < b THEN a ELSE b

Max(a, b) == IF a < b THEN b ELSE a

\* Duration::as_secs_f32 of d ticks: (secs as f32) + (subsec as f32) /
\* (ticks per second as f32).
ToSecsF32(d) ==
    F32Add(IntToF32(d \div TicksPerSecond),
           F32Div(IntToF32(d % TicksPerSecond), IntToF32(TicksPerSecond)))

\* `as usize` of an f32: truncation towards zero, negative values to 0
\* (values of 2^30 and more, beyond every sample count drawn, to 2^30).
F32ToUsize(a) ==
    IF a.neg \/ IsZero(a) THEN 0
    ELSE IF a.exp > 6 THEN 2^30
    ELSE IF a.exp >= 0 THEN a.man * 2^a.exp
    ELSE IF a.exp < -24 THEN 0
    ELSE a.man \div 2^(-a.exp)

\* Line 200: (timer.elapsed().as_secs_f32()*2.0*sample_rate as f32) as usize
CurrentSample(e, rate) ==
    F32ToUsize(F32Mul(F32Mul(ToSecsF32(e), F32Two), IntToF32(rate)))

\* timer.elapsed() d ticks after it was e.  From MaxElapsed on every sample
\* count drawn is exhausted, and the reading stays there.
MaxElapsed == MaxSamples + FRAME_PERIOD

Later(e, d) == Min(e + d, MaxElapsed)

\* The index of line 200 at every reading of the timer and sample rate.
CurrentSamples ==
    [e \in 0..MaxElapsed |-> [rate \in SampleRates |-> CurrentSample(e, rate)]]

\* Line 238: last_frame_time.elapsed().as_secs_f32() of every elapsed time
\* a redraw can find.
ElapsedSecs == [d \in 0..(MaxWait + FRAME_PERIOD + 1) |-> ToSecsF32(d)]

\* The ticks that may pass between the end of a redraw and the next one
\* asking for the surface, whatever other events are handled in them.
Waits == 0..MaxWait

\* The closure is called as long as no call has left ControlFlow::Exit.
Alive == phase = "running" /\ control_flow /= "Exit"

NoFrame ==
    [ first |-> FALSE, at |-> 0, index |-> -1, update_calls |-> 0,
      window |-> <<>>, rendered |-> FALSE, reconfigured |-> FALSE,
      since |-> 0, slept |-> 0 ]

\* Lines 157-162: WindowEvent::CloseRequested.
OnCloseRequested ==
    /\ Alive
    /\ control_flow' = "Exit"
    /\ event' = "CloseRequested"
    /\ surface' = "none"
    /\ frame' = NoFrame
    /\ UNCHANGED <<surface_size, samples_len, sample_rate, elapsed, mark_gap,
                   main_deltatime>>
    /\ UNCHANGED engineVars
    /\ UNCHANGED diameterVars

\* renderer.resize and constrainer.set_resx_resy on the size event ev carries.
ResizeTo(ev) ==
    /\ Alive
    /\ control_flow' = "Wait"
    /\ event' = ev
    /\ surface' = "none"
    /\ \E size \in WindowSizes :
          /\ surface_size' = size
          /\ Return("set_resx_resy",
                    ConstrainerSetResxResy(IntToF32(size[1]), IntToF32(size[2])))
          /\ args' = <<IntToF32(size[1]), IntToF32(size[2])>>
    /\ frame' = NoFrame
    /\ UNCHANGED <<samples_len, sample_rate, elapsed, mark_gap, main_deltatime>>
    /\ UNCHANGED <<phase, count, spectrum, deltatime, updates>>
    /\ UNCHANGED diameterVars

\* Lines 168-177: WindowEvent::Resized.
OnResized == ResizeTo("Resized")

\* Lines 178-188: WindowEvent::ScaleFactorChanged.
OnScaleFactorChanged == ResizeTo("ScaleFactorChanged")

\* Lines 189 and 242: any other event.
OnOtherEvent ==
    /\ Alive
    /\ control_flow' = "Wait"
    /\ event' = "Other"
    /\ surface' = "none"
    /\ frame' = NoFrame
    /\ UNCHANGED <<surface_size, samples_len, sample_rate, elapsed, mark_gap,
                   main_deltatime>>
    /\ UNCHANGED engineVars
    /\ UNCHANGED diameterVars

\* Lines 201-214 without the update: the engine is left alone.
SkipUpdate ==
    UNCHANGED <<resx, resy, particles, resolution_buffer, ellipse_buffer,
                entry, calls, old_res, spectrum, deltatime, iters, updates>>

\* Lines 206-213: the update call on spectrum sp, st being what it leaves.
UpdateWith(sp, st) ==
    /\ Return("set_particles_with_spectrum_and_deltatime", st)
    /\ spectrum' = sp
    /\ deltatime' = main_deltatime
    /\ updates' = updates + 1

\* UpdateDue without the test of line 204.
UpdateDueFromStart(cs, len, sc) == cs < len

\* UpdateDue without the test of line 201.
UpdateDuePastEnd(cs, len, sc) == cs > sc

\* Lines 201-204: the update is made when the index is inside the samples
\* and past the first window.
UpdateDue(cs, len, sc) == cs < len /\ cs > sc

\* Line 205: &samples[(current_sample-SAMPLE_COUNT)..current_sample]
Window(cs, sc) == <<cs - sc, cs>>

\* SleepFor of half the period.
SleepForHalf(s) == Max(0, FRAME_PERIOD \div 2 - s)

\* Line 236: Duration::from_secs_f32(1.0/150.0).saturating_sub(
\* last_frame_time.elapsed()), the elapsed time being s.
SleepFor(s) == Max(0, FRAME_PERIOD - s)

\* ExitRequested with the arm of SurfaceError::Lost leaving the loop too.
ExitRequestedOnLost(res, cs, len) ==
    \/ res = "Ok" /\ cs >= len
    \/ res \in {"OutOfMemory", "Lost"}

\* ExitRequested without the test of line 201.
ExitRequestedOnErrorOnly(res, cs, len) == res = "OutOfMemory"

\* Lines 201-203 and 228-231: the redraw leaves ControlFlow::Exit.
ExitRequested(res, cs, len) ==
    \/ res = "Ok" /\ cs >= len
    \/ res = "OutOfMemory"

\* The redraw on surface result res, the surface asked for w ticks after
\* last_frame_time was set and thread::sleep sleeping `over` ticks too long.
Redraw(res, w, over) ==
    LET at    == Later(elapsed, w)
        cs    == CurrentSamples[at][sample_rate]
        due   == res = "Ok" /\ UpdateDue(cs, samples_len, SAMPLE_COUNT)
        s     == w
        sleep == SleepFor(s)
    IN /\ surface' = res
       /\ control_flow' = IF ExitRequested(res, cs, samples_len)
                          THEN "Exit" ELSE "Wait"
       /\ frame' = [ first |-> mark_gap = -1,
                     at |-> at,
                     index |-> IF res = "Ok" THEN cs ELSE -1,
                     update_calls |-> IF due THEN 1 ELSE 0,
                     window |-> IF due THEN Window(cs, SAMPLE_COUNT) ELSE <<>>,
                     rendered |-> res = "Ok",
                     reconfigured |-> res = "Lost",
                     since |-> s, slept |-> sleep ]
       /\ main_deltatime' = ElapsedSecs[s + sleep + over]
       /\ mark_gap' = s + sleep + over
       /\ elapsed' = Later(at, sleep + over)
       /\ IF due
          THEN \E sp \in FrameSpectra :
                  UpdateWith(sp, ConstrainerSetParticles(sp, main_deltatime))
          ELSE SkipUpdate

\* Lines 194-241: Event::RedrawRequested.  Lines 238 and 239 read the clock
\* in the same tick.
OnRedrawRequested ==
    /\ Alive
    /\ event' = "RedrawRequested"
    /\ \E res \in SurfaceResults, w \in Waits, over \in 0..1 :
          Redraw(res, w, over)
    /\ UNCHANGED <<surface_size, samples_len, sample_rate>>
    /\ UNCHANGED <<phase, count, args>>
    /\ UNCHANGED diameterVars

(***************************************************************************)
(* Specifications                                                          *)
(***************************************************************************)
\* Lines 149-151 and the files drawn: the timer started, deltatime = 0.0.
DriverStart(len, rate) ==
    /\ control_flow = "Poll"
    /\ event = "none"
    /\ surface = "none"
    /\ surface_size = <<800, 600>>
    /\ samples_len = len
    /\ sample_rate = rate
    /\ elapsed = 0
    /\ mark_gap = -1
    /\ main_deltatime = F32Zero
    /\ frame = NoFrame

DriverIdle == DriverStart(0, 0)

NoBranches == [k \in 1..2 |-> [upper |-> FALSE, lower |-> FALSE]]

DiameterIdle ==
    /\ dpc = "idle"
    /\ mag = <<>>
    /\ dia = <<>>
    /\ taken = NoBranches
    /\ redo = <<>>

EngineStart(n) ==
    /\ phase = "layout"
    /\ count = n
    /\ resx = F32Zero
    /\ resy = F32Zero
    /\ particles = <<>>
    /\ resolution_buffer = <<>>
    /\ ellipse_buffer = <<>>
    /\ entry = "none"
    /\ calls = <<>>
    /\ old_res = <<>>
    /\ args = <<>>
    /\ spectrum = <<>>
    /\ deltatime = F32Zero
    /\ iters = <<>>
    /\ updates = 0

\* The engine: main from the layout loop on, with PARTICLE_COUNT particles.
Init == EngineStart(NumParticles) /\ DiameterIdle /\ DriverIdle

Next ==
    \/ PushParticle
    \/ New
    \/ SetResxResy
    \/ SetParticlesWithSpectrumAndDeltatime

Spec == Init /\ [][Next]_vars

\* The layout loop for every particle count from 2 to MaxLayoutN.
InitLayout ==
    (\E n \in 2..MaxLayoutN : EngineStart(n)) /\ DiameterIdle /\ DriverIdle

NextLayout == PushParticle

SpecLayout == InitLayout /\ [][NextLayout]_vars

\* The diameter of every two magnitudes.
InitDiameter ==
    /\ EngineStart(NumParticles)
    /\ DriverIdle
    /\ dpc = "start"
    /\ mag \in Magnitudes \X Magnitudes
    /\ dia = <<>>
    /\ taken = NoBranches
    /\ redo = <<>>

NextDiameter ==
    \/ Scale
    \/ ApplyUpperKnee
    \/ ApplyLowerKnee
    \/ Reapply

SpecDiameter == InitDiameter /\ [][NextDiameter]_vars

\* The engine as Constrainer::new leaves it on a window of 800 by 600 and
\* the particles of the layout loop.
Constructed ==
    RunListeners(Triggered(DynamicFields),
        [ resx |-> IntToF32(800), resy |-> IntToF32(600),
          particles |-> [i \in 1..NumParticles |->
                            ParticleNew(LayoutX(i - 1, NumParticles),
                                        IF i % 2 = 1
                                        THEN <<F32Zero, Dec(1, 4), Dec(1, 2), Dec(3, 4)>>
                                        ELSE <<Dec(1, 2), Dec(1, 2), Dec(1, 8), F32Zero>>)],
          resolution_buffer |-> <<>>, ellipse_buffer |-> <<>>,
          calls |-> <<>>, iters |-> <<>> ])

\* The frame driver: main as it enters event_loop.run, on every file drawn.
InitDriver ==
    /\ phase = "running"
    /\ count = NumParticles
    /\ resx = Constructed.resx
    /\ resy = Constructed.resy
    /\ particles = Constructed.particles
    /\ resolution_buffer = Constructed.resolution_buffer
    /\ ellipse_buffer = Constructed.ellipse_buffer
    /\ entry = "new"
    /\ calls = Constructed.calls
    /\ old_res = <<F32Zero, F32Zero>>
    /\ args = <<IntToF32(800), IntToF32(600)>>
    /\ spectrum = <<>>
    /\ deltatime = F32Zero
    /\ iters = <<>>
    /\ updates = 0
    /\ DiameterIdle
    /\ \E len \in SampleLengths, rate \in SampleRates : DriverStart(len, rate)

NextDriver ==
    \/ OnCloseRequested
    \/ OnResized
    \/ OnScaleFactorChanged
    \/ OnOtherEvent
    \/ OnRedrawRequested

SpecDriver == InitDriver /\ [][NextDriver]_vars

\* Line 240: every redraw handled requests the next one, so redraws keep
\* being handled as long as the loop runs.
SpecDriverFair == SpecDriver /\ WF_vars(OnRedrawRequested)


(***************************************************************************)
(* Claims                                                                  *)
(***************************************************************************)
Running == phase = "running"

Updated == entry = "set_particles_with_spectrum_and_deltatime"

Resized == entry = "set_resx_resy"

\* How many times the last entry point ran listener l.
Runs(l) == Cardinality({k \in DOMAIN calls : calls[k].listener = l})

CallOf(l) == [listener |-> l, resx |-> resx, resy |-> resy]

\* C1: whenever an engine entry point (new, set_resx_resy, the update) has
\* returned, the resolution buffer holds the current (resx, resy) and the
\* ellipse buffer holds one descriptor per particle, in particle order, made
\* of that particle's x, y, diameter, r, g, b, alpha 1.0 and the current resx
\* and resy.
C1_Freshness ==
    Running =>
        /\ resolution_buffer = <<resx, resy>>
        /\ Len(ellipse_buffer) = Len(particles)
        /\ \A i \in 1..Len(particles) :
              LET e == ellipse_buffer[i]
                  p == particles[i]
              IN /\ e.cx = p.x /\ e.cy = p.y
                 /\ e.sx = p.diameter /\ e.sy = p.diameter
                 /\ e.r = p.r /\ e.g = p.g /\ e.b = p.b /\ e.a = F32One
                 /\ e.resx = resx /\ e.resy = resy

\* A resize to another size has returned after an update moved a particle.
C1_Witness ==
    /\ Resized
    /\ updates >= 1
    /\ old_res /= <<resx, resy>>
    /\ \E i \in 1..Len(particles) : ~IsZero(particles[i].diameter)

\* C2: a set_resx_resy call stores its resx and resy and then runs
\* set_resolution_buffer and update_ellipse_buffer, in that order, each once
\* and each on the stored values.
C2_ResizeRunsListenersInOrder ==
    Resized =>
        /\ <<resx, resy>> = args
        /\ calls = << CallOf("set_resolution_buffer"),
                      CallOf("update_ellipse_buffer") >>

\* A resize that changed both resx and resy has returned.
C2_Witness ==
    /\ Resized
    /\ old_res[1] /= resx
    /\ old_res[2] /= resy
    /\ Runs("update_ellipse_buffer") = 1

\* C3: a set_resx_resy call whose arguments equal the current resx and resy
\* still runs each dependent listener exactly once, and every set_resx_resy
\* call writes the resolution buffer.
C3_NoDirtyCheck ==
    /\ Resized => Runs("set_resolution_buffer") >= 1
    /\ (Resized /\ old_res = args) =>
          /\ Runs("set_resolution_buffer") = 1
          /\ Runs("update_ellipse_buffer") = 1
          /\ Len(calls) = 2

\* A resize to the size already in force has returned.
C3_Witness ==
    /\ Resized
    /\ old_res = args
    /\ old_res = <<resx, resy>>

\* C4: Constrainer::new stores the initial resx, resy and particles and runs
\* every declared listener exactly once, so both buffers are written from the
\* initial state when it returns.
C4_ConstructionPropagates ==
    entry = "new" =>
        /\ <<resx, resy>> = args
        /\ \A k \in DOMAIN Listeners : Runs(Listeners[k].name) = 1
        /\ Len(calls) = Len(Listeners)
        /\ \A k \in DOMAIN calls : <<calls[k].resx, calls[k].resy>> = args
        /\ resolution_buffer = args
        /\ Len(ellipse_buffer) = count
        /\ \A i \in 1..count :
              /\ ellipse_buffer[i].cx = particles[i].x
              /\ ellipse_buffer[i].cy = particles[i].y
              /\ IsZero(ellipse_buffer[i].sx)

\* Constrainer::new has returned.
C4_Witness ==
    /\ entry = "new"
    /\ Running
    /\ Len(particles) = count
    /\ resolution_buffer /= <<>>

\* C5: after each update, every particle's y is in [-1.0, 1.0), also when the
\* decrement exceeded 2.0 and the wrap loop ran several times.
C5_YInRange ==
    (Running /\ updates >= 1) =>
        \A i \in 1..Len(particles) :
            /\ F32Le(WRAP_FLOOR, particles[i].y)
            /\ F32Lt(particles[i].y, F32One)

\* A second update has returned in which the wrap loop ran at least twice for
\* a particle.
C5_Witness ==
    /\ Updated
    /\ updates >= 2
    /\ \E i \in 1..Len(particles) : iters[i] >= 2

\* The x of the particle of index i, from 0.
X(i) == particles[i + 1].x

LaidOut == phase = "layout" /\ Len(particles) = count

\* C6 as claimed: for every N >= 2 the layout yields x-values covering
\* [-2, 2]: the first half strictly decreasing from 0 toward -2, the second
\* half increasing from 0 toward 2, index 0 at x = 0 and index N-1 at x = 2.
C6_AsClaimed ==
    LaidOut =>
        /\ F32Eq(X(0), F32Zero)
        /\ F32Eq(X(count - 1), F32Two)
        /\ \A i \in 0..(count - 1) :
              F32Le(F32Neg(F32Two), X(i)) /\ F32Le(X(i), F32Two)
        /\ \A i \in 0..(count - 2) :
              /\ i + 1 < count \div 2 => F32Lt(X(i + 1), X(i))
              /\ i >= count \div 2 => F32Le(X(i), X(i + 1))

\* C6, amended: for every N >= 2 the layout yields x-values in (-1, 1]:
\* index 0 and index N-1 are at x = 0, the first half (i < N/2) is strictly
\* decreasing from 0 and stays above -1, the second half is strictly
\* decreasing from at most 1 down to 0.
C6_Layout ==
    /\ \A i \in 0..(Len(particles) - 1) :
          /\ i < count \div 2 =>
                F32Lt(F32Neg(F32One), X(i)) /\ F32Le(X(i), F32Zero)
          /\ i >= count \div 2 =>
                F32Le(F32Zero, X(i)) /\ F32Le(X(i), F32One)
          /\ (i >= 1 /\ (i < count \div 2 \/ i - 1 >= count \div 2)) =>
                F32Lt(X(i), X(i - 1))
    /\ Len(particles) >= 1 => F32Eq(X(0), F32Zero)
    /\ LaidOut => F32Eq(X(count - 1), F32Zero)

\* The layout loop has ended with both halves holding several particles.
C6_Witness ==
    /\ LaidOut
    /\ count >= 5
    /\ F32Lt(X(count \div 2 - 1), X(0))
    /\ F32Lt(X(count - 1), X(count \div 2))

F32Min(a, b) == IF F32Lt(a, b) THEN a ELSE b

\* The diameter C7 states for a magnitude m.
ClaimedDiameter(m) ==
    LET d0 == F32Mul(m, Dec(1, 10000))
        d1 == IF F32Gt(d0, Dec(2, 100))
              THEN F32Add(Dec(2, 100),
                          F32Div(F32Sub(d0, Dec(2, 100)), IntToF32(50)))
              ELSE d0
    IN IF F32Lt(d1, Dec(1, 1000))
       THEN F32Min(F32Mul(IntToF32(10), d1), Dec(1, 1000))
       ELSE d1

\* C7: an update sets particle i's diameter from the magnitude at index i by
\* d = m*1e-4; if d > 0.02 then d = 0.02 + (d-0.02)/50; if d < 0.001 then
\* d = min(10*d, 0.001), so that magnitudes 0, 50, 500, 20000 give diameters
\* 0, 0.005, 0.0206, 0.0596; and an update with deltatime 0 leaves every
\* particle's y unchanged.
C7_DiameterFromSameIndex ==
    /\ [](Updated =>
            \A i \in 1..Len(particles) :
               LET m == spectrum[i]
                   d == particles[i].diameter
               IN /\ d = ClaimedDiameter(m)
                  /\ m = IntToF32(0) => d = F32Zero
                  /\ m = IntToF32(50) => d = Dec(5, 1000)
                  /\ m = IntToF32(500) => d = Dec(206, 10000)
                  /\ m = IntToF32(20000) => d = Dec(596, 10000))
    /\ [][(Updated' /\ updates' = updates + 1 /\ deltatime' = F32Zero) =>
             \A i \in 1..Len(particles) : particles'[i].y = particles[i].y]_vars

\* A second update, with deltatime 0 and distinct magnitudes above the upper
\* knee for the two first particles, has returned.
C7_Witness ==
    /\ Updated
    /\ updates >= 2
    /\ deltatime = F32Zero
    /\ spectrum[1] = IntToF32(500)
    /\ spectrum[2] = IntToF32(20000)
    /\ particles[1].diameter = Dec(206, 10000)

DiameterDone == dpc \in {"done", "reapplied"}

Raw(k) == ScaleMagnitude(mag[k])

\* C8: a magnitude whose raw diameter m*1e-4 is exactly 0.02 does not take
\* the upper-knee branch and gets 0.02; one whose raw diameter is exactly
\* 0.001 does not take the lower-knee branch and gets 0.001.
C8_StrictBoundaries ==
    DiameterDone =>
        \A k \in 1..2 :
            /\ F32Eq(Raw(k), UPPER_KNEE) =>
                  ~taken[k].upper /\ ~taken[k].lower /\ dia[k] = UPPER_KNEE
            /\ F32Eq(Raw(k), LOWER_KNEE) =>
                  ~taken[k].upper /\ ~taken[k].lower /\ dia[k] = LOWER_KNEE

\* Both boundaries met: raw diameters of exactly 0.02 and exactly 0.001.
C8_Witness ==
    /\ dpc = "done"
    /\ F32Eq(Raw(1), UPPER_KNEE)
    /\ F32Eq(Raw(2), LOWER_KNEE)

InLinearBand(d) == F32Le(LOWER_KNEE, d) /\ F32Le(d, UPPER_KNEE)

\* C9 as claimed: the transform of steps 1-3 (scale by 1e-4, upper knee,
\* lower knee) applied to its own output returns that output whenever the
\* output is >= 0.001 and <= 0.02.
C9_AsClaimed ==
    dpc = "reapplied" =>
        \A k \in 1..2 : InLinearBand(dia[k]) => redo.whole[k] = dia[k]

\* C9, amended: the two knees (steps 2 and 3, without the scaling by 1e-4)
\* applied to an output of the transform return that output whenever the
\* output is >= 0.001 and <= 0.02.
C9_KneesIdempotentInBand ==
    dpc = "reapplied" =>
        \A k \in 1..2 : InLinearBand(dia[k]) => redo.knees[k] = dia[k]

\* The knees were applied again to an output strictly inside the band and to
\* one on its upper edge.
C9_Witness ==
    /\ dpc = "reapplied"
    /\ F32Lt(LOWER_KNEE, dia[1]) /\ F32Lt(dia[1], UPPER_KNEE)
    /\ dia[2] = UPPER_KNEE
    /\ redo.knees = dia

Ordered == F32Le(mag[1], mag[2]) => F32Le(dia[1], dia[2])

\* C10 as claimed: m1 <= m2 implies diameter(m1) <= diameter(m2), and for raw
\* diameters above 0.02 m1 < m2 implies diameter(m1) < diameter(m2).
C10_AsClaimed ==
    DiameterDone =>
        /\ Ordered
        /\ (F32Gt(Raw(1), UPPER_KNEE) /\ F32Lt(mag[1], mag[2])) =>
              F32Lt(dia[1], dia[2])

\* C10, amended: m1 <= m2 implies diameter(m1) <= diameter(m2); for raw
\* diameters above 0.02 the order is strict when m2 is at least twice m1 (the
\* knee does not clip to a common constant), while magnitudes closer than
\* that may get the same diameter.
C10_OrderKept ==
    DiameterDone =>
        /\ Ordered
        /\ (F32Gt(Raw(1), UPPER_KNEE)
              /\ F32Le(F32Mul(F32Two, mag[1]), mag[2])) =>
              F32Lt(dia[1], dia[2])

\* Two magnitudes above the upper knee, the second twice the first.
C10_Witness ==
    /\ dpc = "done"
    /\ taken[1].upper
    /\ mag[2] = F32Mul(F32Two, mag[1])
    /\ F32Lt(dia[1], dia[2])


(***************************************************************************)
(* Claims on the frame driver                                              *)
(***************************************************************************)
\* The closure's last call handled a redraw.
Redrawn == event = "RedrawRequested"

\* The index of line 200 at the time that redraw asked for the surface.
IndexAt(f) == CurrentSamples[f.at][sample_rate]

\* C11 as claimed: every RedrawRequested event handled by the loop results
\* in exactly one call of set_particles_with_spectrum_and_deltatime.
C11_AsClaimed == [][Redrawn' => updates' = updates + 1]_vars

\* C11: every RedrawRequested event handled by the loop results in at most
\* one call of set_particles_with_spectrum_and_deltatime: exactly one when
\* the surface texture was acquired and the sample index lies strictly
\* between SAMPLE_COUNT and samples.len(), and none otherwise.
C11_OneUpdateWhenDue ==
    [][Redrawn' =>
          IF /\ surface' = "Ok"
             /\ SAMPLE_COUNT < IndexAt(frame')
             /\ IndexAt(frame') < samples_len
          THEN /\ updates' = updates + 1
               /\ entry' = "set_particles_with_spectrum_and_deltatime"
               /\ deltatime' = main_deltatime
          ELSE /\ updates' = updates
               /\ particles' = particles
               /\ ellipse_buffer' = ellipse_buffer]_vars

C11_Witness ==
    /\ Redrawn
    /\ surface = "Ok"
    /\ updates = 1
    /\ frame.update_calls = 1
    /\ entry = "set_particles_with_spectrum_and_deltatime"
    /\ \E i \in DOMAIN particles : ~IsZero(particles[i].diameter)


\* The size the last resize event carried (the window's before the first).
LastSize == <<IntToF32(surface_size[1]), IntToF32(surface_size[2])>>

\* C12: once set_resx_resy(w2, h2) has returned, every rebuild of the
\* ellipse buffer, the one of the next update included, passes w2 and h2 as
\* resx and resy to every descriptor, whatever resize and redraw events are
\* handled in whatever order.
C12_RebuildUsesLastResize ==
    /\ \A i \in DOMAIN ellipse_buffer :
          <<ellipse_buffer[i].resx, ellipse_buffer[i].resy>> = LastSize
    /\ \A k \in DOMAIN calls :
          calls[k].listener = "update_ellipse_buffer"
              => <<calls[k].resx, calls[k].resy>> = LastSize

C12_Witness ==
    /\ Redrawn
    /\ frame.update_calls = 1
    /\ entry = "set_particles_with_spectrum_and_deltatime"
    /\ surface_size = <<1024, 768>>
    /\ Len(ellipse_buffer) = count
    /\ ellipse_buffer[1].resx = IntToF32(1024)
    /\ ellipse_buffer[1].resy = IntToF32(768)


\* C13: a redraw whose surface texture could not be acquired makes no
\* particle update and submits no draw; on SurfaceError::Lost the surface is
\* reconfigured and the loop goes on, on any other error but OutOfMemory the
\* loop goes on, and on OutOfMemory the loop is left: a render error ends
\* the loop in the out-of-memory case only.
C13_RenderErrors ==
    [][(Redrawn' /\ surface' /= "Ok") =>
          /\ updates' = updates
          /\ <<particles', ellipse_buffer', resolution_buffer', entry'>>
                = <<particles, ellipse_buffer, resolution_buffer, entry>>
          /\ frame'.update_calls = 0
          /\ ~frame'.rendered
          /\ frame'.reconfigured <=> surface' = "Lost"
          /\ surface' = "OutOfMemory" => control_flow' = "Exit"
          /\ surface' /= "OutOfMemory" => control_flow' = "Wait"]_vars

C13_Witness ==
    /\ Redrawn
    /\ surface = "Lost"
    /\ frame.reconfigured
    /\ ~frame.rendered
    /\ control_flow = "Wait"
    /\ updates = 1
    /\ IndexAt(frame) > SAMPLE_COUNT
    /\ IndexAt(frame) < samples_len


\* The loop has been told to exit.
Exiting == control_flow = "Exit"

\* A redraw whose sample index (line 200) is at or past the end of the
\* samples requests the exit and makes no update.
ExhaustionRequestsExit ==
    [][(Redrawn' /\ surface' = "Ok" /\ IndexAt(frame') >= samples_len) =>
          /\ control_flow' = "Exit"
          /\ updates' = updates
          /\ particles' = particles
          /\ ellipse_buffer' = ellipse_buffer]_vars

C15_WindowInRange ==
    [][Redrawn' =>
          IF updates' = updates + 1
          THEN /\ frame'.window = <<IndexAt(frame') - 2 * count, IndexAt(frame')>>
               /\ frame'.window[2] - frame'.window[1] = 2 * count
               /\ 0 <= frame'.window[1]
               /\ frame'.window[2] <= samples_len
               /\ 2 * count < IndexAt(frame')
               /\ IndexAt(frame') < samples_len
          ELSE frame'.window = <<>>]_vars

C15_Witness ==
    /\ Redrawn
    /\ entry = "set_particles_with_spectrum_and_deltatime"
    /\ frame.update_calls = 1
    /\ frame.window = <<samples_len - 1 - 2 * count, samples_len - 1>>
    /\ frame.window[1] > 0


\* What the update leaves alone in a particle.
Fixed(p) == <<p.x, p.r, p.g, p.b>>

\* C16: set_particles_with_spectrum_and_deltatime changes only diameter and
\* y of the particles: it keeps every particle's x, r, g and b, the number
\* and order of the particles, resx and resy, and it runs the listener
\* update_ellipse_buffer only, leaving the resolution buffer unwritten;
\* set_resx_resy keeps the particles; so the number of particles is the same
\* in every state from construction on.
C16_UpdateFrame ==
    /\ [][updates' = updates + 1 =>
             /\ Len(particles') = Len(particles)
             /\ \A i \in DOMAIN particles :
                   Fixed(particles'[i]) = Fixed(particles[i])
             /\ <<resx', resy'>> = <<resx, resy>>
             /\ resolution_buffer' = resolution_buffer
             /\ calls' = << [listener |-> "update_ellipse_buffer",
                            resx |-> resx, resy |-> resy] >>]_vars
    /\ [][(Running /\ entry' = "set_resx_resy") => particles' = particles]_vars
    /\ [](Running => Len(particles) = count)

C16_Witness ==
    /\ Updated
    /\ updates = 2
    /\ Len(particles) = count
    /\ calls = <<CallOf("update_ellipse_buffer")>>
    /\ \E i \in DOMAIN particles :
          /\ ~IsZero(particles[i].diameter)
          /\ iters[i] > 0


\* The frame period as deltatime gives it, in seconds.
PeriodSecs == ElapsedSecs[FRAME_PERIOD]

\* The end of every handled redraw: the sleep of line 236, the deltatime of
\* line 238 and the frame mark of line 239.
Paced ==
    /\ frame'.slept = Max(0, FRAME_PERIOD - frame'.since)
    /\ mark_gap' >= frame'.since + frame'.slept
    /\ mark_gap' >= FRAME_PERIOD
    /\ main_deltatime' = ElapsedSecs[mark_gap']
    /\ F32Le(PeriodSecs, main_deltatime')

\* C17 as claimed: at the end of every handled redraw, whether the surface
\* was acquired or not, the driver sleeps for max(0, frame period - time
\* since the frame mark), records deltatime as the time since the frame
\* mark and resets the mark; so two consecutive frame marks are at least a
\* frame period apart and the deltatime passed to any update is at least
\* the frame period.
C17_AsClaimed ==
    [][Redrawn' =>
          /\ Paced
          /\ updates' = updates + 1 => F32Le(PeriodSecs, deltatime')]_vars

\* C17: at the end of every handled redraw, whether the surface was acquired
\* or not, the driver sleeps for max(0, frame period - time since the frame
\* mark), records deltatime as the time since the frame mark and resets the
\* mark; so two consecutive frame marks are at least a frame period apart,
\* and the deltatime passed to an update is the one the redraw before
\* recorded, at least the frame period, except in the first redraw handled,
\* which passes the initial 0.0.
C17_FramePacing ==
    [][Redrawn' =>
          /\ Paced
          /\ updates' = updates + 1 =>
                IF mark_gap = -1
                THEN deltatime' = F32Zero
                ELSE /\ deltatime' = ElapsedSecs[mark_gap]
                     /\ F32Le(PeriodSecs, deltatime')]_vars

C17_Witness ==
    /\ Redrawn
    /\ ~frame.first
    /\ frame.update_calls = 1
    /\ entry = "set_particles_with_spectrum_and_deltatime"
    /\ F32Lt(PeriodSecs, deltatime)
    /\ frame.since > FRAME_PERIOD
    /\ frame.slept = 0
    /\ mark_gap = frame.since

=============================================================================
